---- MODULE Spec2Model ----
(***************************************************************************)
(* A model of AtCoder4Rust: the sample extractor (parse_samples), the      *)
(* cookie store (load_cookies / save_cookies), the dispatcher generator    *)
(* (generate_main_rs) and the driver (main) with its login handshake, its  *)
(* fan-out over the tasks (get_samples) and its project generation.        *)
(*                                                                         *)
(* Text is modelled as a sequence of characters, a character being a       *)
(* one-character string.  An Option is a record [some |-> FALSE] or        *)
(* [some |-> TRUE, val |-> v]; a Result is [ok |-> TRUE, val |-> v] or     *)
(* [ok |-> FALSE, err |-> e].                                              *)
(***************************************************************************)
EXTENDS Integers, Sequences, FiniteSets, TLC

VARIABLES
    page, parsed,                 \* parse_samples: the task page, the result
    task_names, main_rs,          \* generate_main_rs: its argument, its text
    ck_file, ck_dest, ck_jar, ck_again, ck_pc,
                                  \* cookie store: the file loaded, the file
                                  \* at the path saved to, the jar, the jar
                                  \* loaded from the saved file, position
    args, pc, disk, loaded, cookies, username, response, html, futs,
    samples, result, log, todo,   \* main: see InitRun
    tc_project, tc_module, tc_samples, tc_text,
                                  \* generate_test_cases: its arguments, its
                                  \* text
    hdrs, token                   \* get_csrf_token: the Set-Cookie values of
                                  \* the response, the result

parseVars == <<page, parsed>>
genVars == <<task_names, main_rs>>
ckVars == <<ck_file, ck_dest, ck_jar, ck_again, ck_pc>>
runVars == <<args, pc, disk, loaded, cookies, username, response, html, futs,
             samples, result, log, todo>>
tcVars == <<tc_project, tc_module, tc_samples, tc_text>>
csrfVars == <<hdrs, token>>
fnVars == <<tcVars, csrfVars>>
vars == <<parseVars, genVars, ckVars, runVars, fnVars>>

----------------------------------------------------------------------------
(* Bounds of the model *)

MaxParts == 3
MaxNames == 3
MaxFileLen == 4
MaxRows == 2
MaxSamples == 2
MaxHeaders == 2

----------------------------------------------------------------------------
(* Option, Result and sequence helpers *)

None == [some |-> FALSE]
Some(v) == [some |-> TRUE, val |-> v]
Ok(v) == [ok |-> TRUE, val |-> v]
Err(e) == [ok |-> FALSE, err |-> e]

Min(a, b) == IF a <= b THEN a ELSE b

SeqsUpTo(S, n) == UNION {[1..k -> S] : k \in 0..n}

----------------------------------------------------------------------------
(* parse_samples (src/src/main.rs:60-93)                                   *)
(*                                                                         *)
(* A page is the sequence of its `.part` elements in document order.  A    *)
(* part records whether it lies under #task-statement, its h3 elements and *)
(* the inner HTML of its pre elements, both in document order.  An h3 is   *)
(* the sequence of its text nodes; a text node records what it starts with *)
(* ("in" for the input-example label, "out" for the output-example label,  *)
(* "other") and its whitespace-separated tokens.                           *)

\* h3.text().find(|text| text.starts_with(label)): the first text node of
\* the h3 that starts with the label.
RECURSIVE FindText(_, _)
FindText(h3, label) ==
    IF h3 = <<>> THEN None
    ELSE IF Head(h3).starts = label THEN Some(Head(h3))
    ELSE FindText(Tail(h3), label)

\* text.split_whitespace().nth(1)
SecondToken(text) ==
    IF Len(text.tokens) >= 2 THEN Some(text.tokens[2]) ELSE None

\* The closure of lines 66-79: an h3 gives (index, is_input) or nothing.
H3Heading(h3) ==
    LET i == FindText(h3, "in")
        o == FindText(h3, "out")
    IN  IF i.some
        THEN IF SecondToken(i.val).some
             THEN Some([index |-> SecondToken(i.val).val, is_input |-> TRUE])
             ELSE None
        ELSE IF o.some
        THEN IF SecondToken(o.val).some
             THEN Some([index |-> SecondToken(o.val).val, is_input |-> FALSE])
             ELSE None
        ELSE None

\* part.select("h3").filter_map(..).next(): the first h3 that gives a heading.
RECURSIVE PartHeading(_)
PartHeading(h3s) ==
    IF h3s = <<>> THEN None
    ELSE IF H3Heading(Head(h3s)).some THEN H3Heading(Head(h3s))
    ELSE PartHeading(Tail(h3s))

\* Lines 62-86: one triple (text, index, is_input) for each selected part
\* that has a heading and a pre, in document order.
RECURSIVE Triples(_)
Triples(parts) ==
    IF parts = <<>> THEN <<>>
    ELSE LET part == Head(parts)
             h == PartHeading(part.h3s)
         IN  IF part.in_statement /\ h.some /\ part.pres # <<>>
             THEN <<[text |-> Head(part.pres), index |-> h.val.index,
                     is_input |-> h.val.is_input]>> \o Triples(Tail(parts))
             ELSE Triples(Tail(parts))

\* A zip as long as the longer side, the shorter side padded with empty
\* texts.
ZipTruncLong(xs, ys) ==
    [i \in 1..(IF Len(xs) >= Len(ys) THEN Len(xs) ELSE Len(ys)) |->
        <<IF i <= Len(xs) THEN xs[i].text ELSE <<>>,
          IF i <= Len(ys) THEN ys[i].text ELSE <<>> >>]

\* inputs.iter().zip(outputs.iter()): pairs by position, as long as the
\* shorter side (lines 88-92).
Zip(xs, ys) ==
    [i \in 1..Min(Len(xs), Len(ys)) |-> <<xs[i].text, ys[i].text>>]

parse_samples(text) ==
    LET triples == Triples(text)
        inputs == SelectSeq(triples, LAMBDA t : t.is_input)
        outputs == SelectSeq(triples, LAMBDA t : ~t.is_input)
    IN  Ok(Zip(inputs, outputs))

\* Text nodes of headings.
TIn(idx) == [starts |-> "in", tokens |-> <<"IN", idx>>]
TOut(idx) == [starts |-> "out", tokens |-> <<"OUT", idx>>]
TInBare == [starts |-> "in", tokens |-> <<"IN1">>]
TOther == [starts |-> "other", tokens |-> <<"Problem", "Statement">>]

TextA == <<"1", " ", "2">>
TextB == <<"3">>

Part(h3s, pres) == [in_statement |-> TRUE, h3s |-> h3s, pres |-> pres]

\* The parts of the model's pages: input and output examples, a part with
\* no pre, parts whose headings are no example headings, a part with two
\* h3, an h3 with two text nodes, and a part outside #task-statement.
Parts ==
    { Part(<< <<TIn("1")>> >>, <<TextA>>),
      Part(<< <<TIn("2")>> >>, <<TextB>>),
      Part(<< <<TOut("1")>> >>, <<TextB>>),
      Part(<< <<TOut("2")>> >>, <<TextA, TextB>>),
      Part(<< <<TIn("1")>> >>, <<>>),
      Part(<< <<TOther>> >>, <<TextA>>),
      Part(<< <<TOther>>, <<TOut("1")>> >>, <<TextA>>),
      Part(<< <<TInBare>>, <<TOut("2")>> >>, <<TextB>>),
      Part(<< <<TOut("1"), TIn("2")>> >>, <<TextA>>),
      Part(<< <<TInBare, TOut("1")>> >>, <<TextA>>),
      Part(<<>>, <<TextA>>),
      [in_statement |-> FALSE, h3s |-> << <<TIn("1")>> >>, pres |-> <<TextB>>] }

----------------------------------------------------------------------------
(* generate_main_rs (src/src/generator.rs:24-52)                           *)
(*                                                                         *)
(* The emitted text is the sequence of its lines; a line is the sequence   *)
(* of the pieces that format! concatenates (literal pieces and the         *)
(* characters of the task name).                                           *)

\* The code point of a character, for the characters of the model's names.
CharCode(c) ==
    CASE c = "A" -> 65 [] c = "B" -> 66 [] c = "_" -> 95
      [] c = "a" -> 97 [] c = "b" -> 98

\* Ord for String: lexicographic by code point, a proper prefix first.
RECURSIVE StrLess(_, _)
StrLess(a, b) ==
    IF b = <<>> THEN FALSE
    ELSE IF a = <<>> THEN TRUE
    ELSE IF CharCode(Head(a)) # CharCode(Head(b))
         THEN CharCode(Head(a)) < CharCode(Head(b))
    ELSE StrLess(Tail(a), Tail(b))

\* One step of a stable sort: x goes after the elements not greater.
RECURSIVE Insert(_, _)
Insert(x, sorted) ==
    IF sorted = <<>> THEN <<x>>
    ELSE IF StrLess(x, Head(sorted)) THEN <<x>> \o sorted
    ELSE <<Head(sorted)>> \o Insert(x, Tail(sorted))

RECURSIVE SortFrom(_, _)
SortFrom(names, sorted) ==
    IF names = <<>> THEN sorted
    ELSE SortFrom(Tail(names), Insert(Head(names), sorted))

\* Without the sort of line 26.
NoSort(names) == names

\* task_names.sort() (line 26)
Sort(names) == SortFrom(names, <<>>)

ModLine(task) == <<"mod ">> \o task \o <<";">>
ArmLine(task) ==
    <<"        \"">> \o task \o <<"\" => ">> \o task \o <<"::main(),">>

generate_main_rs(names) ==
    LET sorted == Sort(names)
        mods == [i \in 1..Len(sorted) |-> ModLine(sorted[i])]
        \* join("\n") of no arm is the empty string: one empty line
        matches == IF sorted = <<>> THEN << <<>> >>
                   ELSE [i \in 1..Len(sorted) |-> ArmLine(sorted[i])]
    IN  mods
        \o << <<>>,
              <<"fn main() {">>,
              <<"    let mut args = std::env::args();">>,
              <<"    if args.len() < 2 {">>,
              <<"        return;">>,
              <<"    }">>,
              <<"    match args.nth(1).unwrap().as_str() {">> >>
        \o matches
        \o << <<"        _ => {},">>,
              <<"    }">>,
              <<"}">> >>

\* The task names of the model.
Slugs == { <<"a">>, <<"b">>, <<"a", "b">>, <<"B">>, <<"a", "_">> }

----------------------------------------------------------------------------
(* The cookie store (src/src/main.rs:152-173)                              *)
(*                                                                         *)
(* A file is the sequence of its bytes.  NL is the line feed, CR the       *)
(* carriage return, CTL a control byte (no header value may hold it) and   *)
(* BADUTF a byte that is no UTF-8.  A jar is the sequence of the values of *)
(* its cookie headers in insertion order.                                  *)

NL == "\n"
CR == "\r"
CTL == "^A"
BADUTF == "\\xff"

\* BufRead::lines(): the pieces between line feeds, the piece after the last
\* line feed only when it is not empty; `cur` is the line read so far.
RECURSIVE SplitLines(_, _)
SplitLines(bytes, cur) ==
    IF bytes = <<>> THEN (IF cur = <<>> THEN <<>> ELSE <<cur>>)
    ELSE IF Head(bytes) = NL THEN <<cur>> \o SplitLines(Tail(bytes), <<>>)
    ELSE SplitLines(Tail(bytes), Append(cur, Head(bytes)))

\* lines() drops one carriage return before the line feed.
StripCR(line) ==
    IF line # <<>> /\ line[Len(line)] = CR
    THEN SubSeq(line, 1, Len(line) - 1) ELSE line

\* A line that is no UTF-8 is an Err of lines().
IsUtf8(line) == \A i \in 1..Len(line) : line[i] # BADUTF

\* HeaderValue::from_str(line).ok(): visible ASCII only.
IsHeaderValue(line) ==
    \A i \in 1..Len(line) : line[i] \notin {NL, CR, CTL, BADUTF}

load_cookies(bytes) ==
    LET raw == SplitLines(bytes, <<>>)
        lines == [i \in 1..Len(raw) |->
                     IF IsUtf8(raw[i]) THEN StripCR(raw[i]) ELSE raw[i]]
    IN  SelectSeq(lines, LAMBDA l : IsUtf8(l) /\ IsHeaderValue(l))

\* join("\n")
RECURSIVE Join(_)
Join(values) ==
    IF values = <<>> THEN <<>>
    ELSE IF Len(values) = 1 THEN Head(values)
    ELSE Head(values) \o <<NL>> \o Join(Tail(values))

\* OpenOptions::new().write(true).create(true).open(path) and write_all:
\* the bytes are written from offset 0 and the file is not truncated, so
\* what an existing file holds beyond them stays.
WriteOver(existing, bytes) ==
    IF existing.some /\ Len(existing.val) > Len(bytes)
    THEN bytes \o SubSeq(existing.val, Len(bytes) + 1, Len(existing.val))
    ELSE bytes

\* The file at the path after save_cookies; value.to_str().ok() keeps the
\* values of visible ASCII.
save_cookies(jar, existing) ==
    WriteOver(existing, Join(SelectSeq(jar, IsHeaderValue)))

Bytes == {"a", "b", NL, CR, CTL, BADUTF}

\* A file that already exists at a path other than the one loaded.
OtherFile == <<"b", "=", "b", NL, "b", NL, "b">>

----------------------------------------------------------------------------
(* The login handshake (src/src/main.rs:22-58, 125-150)                    *)
(*                                                                         *)
(* A response records its status and its Set-Cookie headers.  A Set-Cookie *)
(* header records the cookie it sets (name, value) and its text, character *)
(* by character.                                                           *)

StatusOK == 200

RECURSIVE Flatten(_)
Flatten(seqs) ==
    IF seqs = <<>> THEN <<>> ELSE Head(seqs) \o Flatten(Tail(seqs))

RevelSession == <<"R", "E", "V", "E", "L", "_", "S", "E", "S", "S", "I", "O", "N">>
CsrfKey == <<"c", "s", "r", "f", "_", "t", "o", "k", "e", "n">>
Separator == <<"%", "0", "0">>
Colon == <<":">>

\* str::starts_with
StartsWith(text, pat) ==
    Len(text) >= Len(pat) /\ SubSeq(text, 1, Len(pat)) = pat

\* str::split(pat): the pieces of the text between the occurrences of the
\* pattern, found from the left; acc is the piece being read.
RECURSIVE SplitFrom(_, _, _)
SplitFrom(text, pat, acc) ==
    IF text = <<>> THEN <<acc>>
    ELSE IF StartsWith(text, pat)
    THEN <<acc>> \o SplitFrom(SubSeq(text, Len(pat) + 1, Len(text)), pat, <<>>)
    ELSE SplitFrom(Tail(text), pat, Append(acc, Head(text)))

SplitOn(text, pat) == SplitFrom(text, pat, <<>>)

\* The character of a percent escape, for the escapes of the model's texts.
Unescape(hi, lo) ==
    CASE <<hi, lo>> = <<"3", "A">> -> ":"
      [] <<hi, lo>> = <<"3", "a">> -> ":"
      [] <<hi, lo>> = <<"2", "5">> -> "%"

IsEscape(hi, lo) == <<hi, lo>> \in {<<"3", "A">>, <<"3", "a">>, <<"2", "5">>}

\* percent_decode_str and decode_utf8_lossy on ASCII text: an escape gives
\* its character, a % that begins no escape stays.
RECURSIVE PercentDecode(_)
PercentDecode(text) ==
    IF text = <<>> THEN <<>>
    ELSE IF Head(text) = "%" /\ Len(text) >= 3 /\ IsEscape(text[2], text[3])
    THEN <<Unescape(text[2], text[3])>>
         \o PercentDecode(SubSeq(text, 4, Len(text)))
    ELSE <<Head(text)>> \o PercentDecode(Tail(text))

\* token.split(":").nth(1): the piece between the first colon and the next.
SecondPiece(text) == SplitOn(text, Colon)[2]

\* get_csrf_token: of the fragments beginning with csrf_token in the headers
\* beginning with REVEL_SESSION, percent-decoded, the first that has a colon
\* gives the piece after it (lines 24-43).
get_csrf_token(resp) ==
    LET session == SelectSeq(resp.set_cookie,
                       LAMBDA h : IsHeaderValue(h.text)
                                  /\ StartsWith(h.text, RevelSession))
        frags == SelectSeq(
                     Flatten([i \in 1..Len(session) |->
                                 SplitOn(session[i].text, Separator)]),
                     LAMBDA f : StartsWith(f, CsrfKey))
        decoded == [i \in 1..Len(frags) |-> PercentDecode(frags[i])]
        tokens == SelectSeq(decoded, LAMBDA t : Len(SplitOn(t, Colon)) >= 2)
    IN  IF tokens = <<>>
        THEN Err([kind |-> "Invalid", msg |-> "Could not find csrf_token"])
        ELSE Ok(SecondPiece(Head(tokens)))

\* get_cookies: one cookie header "name=value" for each cookie of the
\* response, in order.
get_cookies(resp) ==
    [i \in 1..Len(resp.set_cookie) |->
        resp.set_cookie[i].name \o <<"=">> \o resp.set_cookie[i].value]

\* str::contains
Contains(text, pat) ==
    \E k \in 0..(Len(text) - Len(pat)) :
        \A i \in 1..Len(pat) : text[k + i] = pat[i]

\* A verification that looks for any cookie at all.
AnyCookie(jar, name) == jar # <<>>

\* Lines 255-260: some cookie header of the jar contains the username.
LoginSucceeded(jar, name) ==
    \E i \in 1..Len(jar) : IsHeaderValue(jar[i]) /\ Contains(jar[i], name)

\* A Set-Cookie header: the name and the value of its cookie, and its text.
SetCookie(name, value) ==
    [name |-> name, value |-> value, text |-> name \o <<"=">> \o value]
Plain(name, value) == SetCookie(name, value)

Token == <<"t", "o", "k">>
Escaped == <<"%", "3", "A">>
SessionValue == <<"s">>

\* The value of a session cookie: its fragments, each followed by the
\* separator.
RECURSIVE Payload(_)
Payload(frags) ==
    IF frags = <<>> THEN <<>>
    ELSE Head(frags) \o Separator \o Payload(Tail(frags))

\* The Set-Cookie headers of the login page: a session cookie with a token,
\* one with no csrf_token fragment, none at all, a token in a cookie that is
\* no session cookie, and a csrf_token fragment with no colon before one
\* whose token is followed by a second colon.
LoginPages ==
    { << SetCookie(RevelSession,
                   Payload(<<SessionValue, CsrfKey \o Escaped \o Token>>)) >>,
      << SetCookie(RevelSession, Payload(<<SessionValue>>)) >>,
      <<>>,
      << SetCookie(<<"X">>,
                   Payload(<<SessionValue, CsrfKey \o Escaped \o Token>>)) >>,
      << Plain(<<"X">>, <<"x">>),
         SetCookie(RevelSession,
                   Payload(<<SessionValue, CsrfKey,
                             CsrfKey \o Escaped \o Token \o Escaped
                               \o <<"x">> >>)) >> }

\* The Set-Cookie headers get_csrf_token is checked on by itself.
CsrfHeaders ==
    { SetCookie(RevelSession,
                Payload(<<SessionValue, CsrfKey \o Escaped \o Token>>)),
      SetCookie(RevelSession,
                Payload(<<SessionValue,
                          CsrfKey \o Escaped \o Token \o Escaped \o <<"x">> >>)),
      SetCookie(RevelSession,
                Payload(<<CsrfKey \o Colon \o <<"u">> \o Colon>>)),
      SetCookie(RevelSession, Payload(<<SessionValue, CsrfKey>>)),
      SetCookie(RevelSession,
                Payload(<<SessionValue, <<"_", "T", "S">> \o Escaped \o <<"1">> >>)),
      SetCookie(RevelSession \o <<"2">>,
                Payload(<<CsrfKey \o <<"%", "2", "5">> \o Colon \o <<"v">> >>)),
      SetCookie(<<"X">>,
                Payload(<<SessionValue, CsrfKey \o Escaped \o Token>>)),
      SetCookie(<<"r">>, RevelSession \o Escaped \o CsrfKey),
      Plain(<<"X">>, <<"x">>) }

UserName == <<"a", "l">>
PassWord == <<"p", "w">>

\* What a prompt can return after trim().
PromptAnswers == { <<>>, UserName }

\* The cookies of the answer to the login POST: none, one whose value holds
\* the username, one that does not, one whose name is the username.
PostCookies ==
    { <<>>,
      << Plain(<<"R">>, <<"x", "a", "l">>) >>,
      << Plain(<<"R">>, <<"x">>) >>,
      << Plain(<<"R">>, <<"x">>), Plain(UserName, <<"y">>) >> }

Statuses == {StatusOK, 204, 404}

----------------------------------------------------------------------------
(* The task index and the fan-out (src/src/main.rs:95-123)                 *)
(*                                                                         *)
(* The index page is the sequence of its `tbody > tr` rows; a row is the   *)
(* sequence of its td cells, a cell the sequence of its anchors, an anchor *)
(* its inner HTML and its href attribute.                                  *)

Anchor(text) == [text |-> text, href |-> Some("/tasks")]

\* tr.select("td a").next(): the first anchor of the row, whatever cell
\* holds it.
FirstAnchor(row) ==
    IF Flatten(row) = <<>> THEN None ELSE Some(Head(Flatten(row)))

\* Lines 103-105: the anchors of the rows that have one, in document order.
RECURSIVE TaskAnchors(_)
TaskAnchors(rows) ==
    IF rows = <<>> THEN <<>>
    ELSE IF FirstAnchor(Head(rows)).some
         THEN <<FirstAnchor(Head(rows)).val>> \o TaskAnchors(Tail(rows))
    ELSE TaskAnchors(Tail(rows))

\* The rows of the model's index pages: tasks A, a and B (B with its anchor
\* in the second cell), a row with no anchor, an anchor with no href.
Rows ==
    { << <<Anchor(<<"A">>)>> >>,
      << <<Anchor(<<"a">>)>> >>,
      << <<>>, <<Anchor(<<"B">>)>> >>,
      << <<>> >>,
      << <<[text |-> <<"B">>, href |-> None]>> >> }

\* The task pages the server answers with.
SamplePage ==
    << Part(<< <<TIn("1")>> >>, <<TextA>>), Part(<< <<TOut("1")>> >>, <<TextB>>) >>
ErrorPage == <<>>

\* What a per-task request ends with: a transport failure or a response.
TaskOutcomes ==
    { [sent |-> FALSE],
      [sent |-> TRUE, status |-> StatusOK, text |-> SamplePage],
      [sent |-> TRUE, status |-> 404, text |-> ErrorPage] }

\* The async block of lines 112-120 once its request has ended.
TaskResult(name, outcome) ==
    IF ~outcome.sent THEN Err([kind |-> "Reqwest"])
    ELSE LET parsed_text == parse_samples(outcome.text)
         IN  IF parsed_text.ok THEN Ok(<<name, parsed_text.val>>)
             ELSE parsed_text

\* A collect that drops the failures and keeps the rest.
RECURSIVE CollectPartial(_, _)
CollectPartial(results, map) ==
    IF results = <<>> THEN Ok(map)
    ELSE IF ~Head(results).ok THEN CollectPartial(Tail(results), map)
    ELSE CollectPartial(Tail(results),
                        (Head(results).val[1] :> Head(results).val[2]) @@ map)

\* collect() of the joined results into Result<HashMap, Error>: the first
\* failure in task order, else the map of the pairs, a later pair replacing
\* an earlier one of the same name.
RECURSIVE Collect(_, _)
Collect(results, map) ==
    IF results = <<>> THEN Ok(map)
    ELSE IF ~Head(results).ok THEN Head(results)
    ELSE Collect(Tail(results),
                 (Head(results).val[1] :> Head(results).val[2]) @@ map)

EmptyMap == [x \in {} |-> <<>>]

----------------------------------------------------------------------------
(* Project generation (src/src/main.rs:294-358, src/src/generator.rs:2-21) *)

ContestId == "abc100"

\* str::to_lowercase
LowerChar(c) == CASE c = "A" -> "a" [] c = "B" -> "b" [] OTHER -> c
to_lowercase(text) == [i \in 1..Len(text) |-> LowerChar(text[i])]

RootPath == <<ContestId>>
ManifestPath == <<ContestId, "/Cargo.toml">>
SrcPath == <<ContestId, "/src">>
MainPath == <<ContestId, "/src/", "m", "a", "i", "n", ".rs">>
TaskPath(slug) == <<ContestId, "/src/">> \o slug \o <<".rs">>
CookiePath == <<"cookie.txt">>
CookieParent == <<"cookie-dir">>

DefaultDependencies == "proconio"
DefaultTemplate == "use proconio::input;"

\* generate_cargo_toml: the fields of the manifest.
generate_cargo_toml(project_name, author, dependencies) ==
    [name |-> project_name, version |-> "0.1.0",
     authors |-> <<IF author.some THEN author.val ELSE <<>> >>,
     edition |-> "2018", bin |-> project_name, dependencies |-> dependencies]

----------------------------------------------------------------------------
(* generate_sample and generate_test_cases (src/src/generator.rs:55-118)   *)
(*                                                                         *)
(* As for generate_main_rs the text is the sequence of the lines of the    *)
(* format string, a line the sequence of its pieces.  The raw-string       *)
(* markers around a sample text are spelled character by character, as the *)
(* text between them is.                                                   *)

RawOpen == <<"r", "#", "\"">>
RawClose == <<"\"", "#">>

\* The decimal digits of a number, as format! writes it.
RECURSIVE Decimal(_)
Decimal(n) ==
    LET digit(d) == CASE d = 0 -> "0" [] d = 1 -> "1" [] d = 2 -> "2"
                      [] d = 3 -> "3" [] d = 4 -> "4" [] d = 5 -> "5"
                      [] d = 6 -> "6" [] d = 7 -> "7" [] d = 8 -> "8"
                      [] d = 9 -> "9"
    IN  IF n < 10 THEN <<digit(n)>>
        ELSE Decimal(n \div 10) \o <<digit(n % 10)>>

\* Names counted from the position in the list, which starts at 0.
SampleNameFromZero(index) == <<"sample_">> \o Decimal(index)

\* format!("sample_{}", index + 1), index counted from 0 (line 102)
SampleName(index) == <<"sample_">> \o Decimal(index + 1)

generate_sample(project_name, module_name, sample_name, input, output) ==
    << <<"    #[test]">>,
       <<"    fn ">> \o sample_name \o <<"() {">>,
       <<"        let test_dir = TestDir::new(\"./", project_name,
         "\", \"\");">>,
       <<"        let output = test_dir">>,
       <<"            .cmd()">>,
       <<"            .arg(\"">> \o module_name \o <<"\")">>,
       <<"            .output_with_stdin(">> \o RawOpen \o input \o RawClose
           \o <<")">>,
       <<"            .expect_success();">>,
       <<"        let stderr = output.stderr_str();">>,
       <<"        if !stderr.is_empty() {">>,
       <<"            eprintln!(\"=== stderr ===\");">>,
       <<"            eprint!(\"{}\", stderr);">>,
       <<"            eprintln!(\"==============\");">>,
       <<"        }">>,
       <<"        assert_eq!(output.stdout_str(), ">> \o RawOpen \o output
           \o RawClose \o <<");">>,
       <<"        assert!(stderr.is_empty(), \"stderr is not empty\");">>,
       <<"    }">> >>

\* The number of lines of one test.
TestLines == 17

generate_test_cases(project_name, module_name, the_samples) ==
    << <<"#[cfg(test)]">>,
       <<"mod tests {">>,
       <<"    use cli_test_dir::*;">>,
       <<>> >>
    \o Flatten([i \in 1..Len(the_samples) |->
                  generate_sample(project_name, module_name, SampleName(i - 1),
                                  the_samples[i][1], the_samples[i][2])])
    \o << <<>>, <<"}">> >>

\* The sample texts of the model: plain, one holding the closing marker of
\* the raw string, one ending with a quote.
SampleTexts == { <<"1">>, <<"\"", "#">>, <<"1", "\"">> }

NotParsed == [done |-> FALSE]

IdleParse == page = <<>> /\ parsed = NotParsed
IdleGen == task_names = <<>> /\ main_rs = <<>>
IdleCk ==
    /\ ck_file = <<>> /\ ck_dest = None /\ ck_jar = <<>> /\ ck_again = <<>>
    /\ ck_pc = "idle"
IdleFn ==
    /\ tc_project = <<>> /\ tc_module = <<>> /\ tc_samples = <<>>
    /\ tc_text = <<>> /\ hdrs = <<>> /\ token = None
IdleRun ==
    /\ args = <<>> /\ pc = "idle" /\ disk = <<>> /\ loaded = None
    /\ cookies = None /\ username = None /\ response = None /\ html = <<>>
    /\ futs = <<>> /\ samples = None /\ result = None /\ log = <<>>
    /\ todo = {}

InitParse ==
    /\ page \in SeqsUpTo(Parts, MaxParts)
    /\ parsed = NotParsed
    /\ IdleGen /\ IdleCk /\ IdleRun /\ IdleFn

ParseSamples ==
    /\ ~parsed.done
    /\ parsed' = [done |-> TRUE, res |-> parse_samples(page)]
    /\ UNCHANGED <<page, genVars, ckVars, runVars, fnVars>>

NextParse == ParseSamples

SpecParse == InitParse /\ [][NextParse]_vars

InitGen ==
    /\ task_names \in SeqsUpTo(Slugs, MaxNames)
    /\ main_rs = <<>>
    /\ IdleParse /\ IdleCk /\ IdleRun /\ IdleFn

GenerateMainRs ==
    /\ main_rs = <<>>
    /\ main_rs' = generate_main_rs(task_names)
    /\ UNCHANGED <<task_names, parseVars, ckVars, runVars, fnVars>>

NextGen == GenerateMainRs

SpecGen == InitGen /\ [][NextGen]_vars

\* The cookie store: a file is loaded, the jar is saved to a new path, over
\* the file it was loaded from or over another file, and the saved file is
\* loaded again.
InitCookie ==
    /\ ck_file \in SeqsUpTo(Bytes, MaxFileLen)
    /\ ck_dest \in {None, Some(ck_file), Some(OtherFile)}
    /\ ck_jar = <<>> /\ ck_again = <<>>
    /\ ck_pc = "start"
    /\ IdleParse /\ IdleGen /\ IdleRun /\ IdleFn

LoadCookies ==
    /\ ck_pc = "start"
    /\ ck_jar' = load_cookies(ck_file)
    /\ ck_pc' = "loaded"
    /\ UNCHANGED <<ck_file, ck_dest, ck_again, parseVars, genVars, runVars, fnVars>>

SaveCookies ==
    /\ ck_pc = "loaded"
    /\ ck_dest' = Some(save_cookies(ck_jar, ck_dest))
    /\ ck_pc' = "saved"
    /\ UNCHANGED <<ck_file, ck_jar, ck_again, parseVars, genVars, runVars, fnVars>>

LoadSaved ==
    /\ ck_pc = "saved"
    /\ ck_again' = load_cookies(ck_dest.val)
    /\ ck_pc' = "reloaded"
    /\ UNCHANGED <<ck_file, ck_dest, ck_jar, parseVars, genVars, runVars, fnVars>>

NextCookie == LoadCookies \/ SaveCookies \/ LoadSaved

SpecCookie == InitCookie /\ [][NextCookie]_vars

\* generate_test_cases on a project name, a module name and a sample list.
InitTests ==
    /\ tc_project = ContestId
    /\ tc_module \in { <<"a">>, <<"a", "b">> }
    /\ tc_samples \in SeqsUpTo(SampleTexts \X SampleTexts, MaxSamples)
    /\ tc_text = <<>>
    /\ hdrs = <<>> /\ token = None
    /\ IdleParse /\ IdleGen /\ IdleCk /\ IdleRun

GenerateTestCases ==
    /\ tc_text = <<>>
    /\ tc_text' = generate_test_cases(tc_project, tc_module, tc_samples)
    /\ UNCHANGED <<tc_project, tc_module, tc_samples, csrfVars, parseVars,
                   genVars, ckVars, runVars>>

NextTests == GenerateTestCases

SpecTests == InitTests /\ [][NextTests]_vars

\* get_csrf_token on the Set-Cookie headers of a response.
InitCsrf ==
    /\ hdrs \in SeqsUpTo(CsrfHeaders, MaxHeaders)
    /\ token = None
    /\ tc_project = <<>> /\ tc_module = <<>> /\ tc_samples = <<>>
    /\ tc_text = <<>>
    /\ IdleParse /\ IdleGen /\ IdleCk /\ IdleRun

GetCsrfToken ==
    /\ token = None
    /\ token' = Some(get_csrf_token([status |-> StatusOK, set_cookie |-> hdrs]))
    /\ UNCHANGED <<hdrs, tcVars, parseVars, genVars, ckVars, runVars>>

NextCsrf == GetCsrfToken

SpecCsrf == InitCsrf /\ [][NextCsrf]_vars

----------------------------------------------------------------------------
(* main (src/src/main.rs:176-361)                                          *)
(*                                                                         *)
(* args      the options: user and password (Option), no_login, cookie     *)
(*           (whether -c names the cookie path)                            *)
(* pc        the position of main                                          *)
(* disk      the filesystem: the cookie file (Option of its bytes),        *)
(*           whether the directory of the cookie path and the directory    *)
(*           <root>/<contest-id> exist, the files written under the latter *)
(* loaded    the jar of the cookie file found (lines 217-229)              *)
(* cookies   the jar of the session (lines 230-278)                        *)
(* username  the username of the login block (lines 236-244)               *)
(* response  what the handshake holds between its requests                 *)
(* html      the rows of the index page                                    *)
(* futs      the futures of the fan-out, in task order                     *)
(* samples   the map from task name to samples (line 292)                  *)
(* result    what main returned, once it has                               *)
(* log       the requests sent, the prompts and the filesystem writes, in  *)
(*           order                                                         *)
(* todo      the keys of samples whose file is not written yet             *)

CookieFiles == { <<"R", "=", "x", "a", "l", NL, CTL, NL, "T", "=", "y">> }

InitRun ==
    /\ args \in [user : {None, Some(UserName)},
                 password : {None, Some(PassWord)},
                 no_login : BOOLEAN, cookie : BOOLEAN]
    /\ disk \in [cookie_file : {None} \cup {Some(f) : f \in CookieFiles},
                 cookie_parent : BOOLEAN, root : BOOLEAN, files : {EmptyMap}]
    \* the current directory exists, and so does the directory of a file;
    \* -c changes the run only when it names a path in a missing directory
    /\ (disk.cookie_file.some \/ ~args.cookie) => disk.cookie_parent
    /\ args.cookie => ~disk.cookie_parent
    /\ pc = "start"
    /\ loaded = None /\ cookies = None /\ username = None /\ response = None
    /\ html = <<>> /\ futs = <<>> /\ samples = None /\ result = None
    /\ log = <<>> /\ todo = {}
    /\ IdleParse /\ IdleGen /\ IdleCk /\ IdleFn

Fail(e) == result' = Some(Err(e)) /\ pc' = "done"

Headers(jar) == IF jar.some THEN jar.val ELSE <<>>

\* Lines 217-229: the cookie file, when there is one, is loaded.
FindCookieFile ==
    /\ pc = "start"
    /\ IF disk.cookie_file.some
       THEN /\ loaded' = Some(load_cookies(disk.cookie_file.val))
            /\ log' = Append(log, [op |-> "load_cookies"])
       ELSE /\ loaded' = None
            /\ log' = log
    /\ pc' = "session"
    /\ UNCHANGED <<args, disk, cookies, username, response, html, futs,
                   samples, result, todo, parseVars, genVars, ckVars, fnVars>>

\* With the branch of line 232 missing: the loaded jar is not reused.
ChooseSessionAlwaysLogin ==
    /\ pc = "session"
    /\ IF args.no_login
       THEN cookies' = None /\ pc' = "ready"
       ELSE cookies' = cookies /\ pc' = "credentials"
    /\ UNCHANGED <<args, disk, loaded, username, response, html, futs,
                   samples, result, log, todo, parseVars, genVars, ckVars, fnVars>>

\* Lines 230-234: no session under no-login, else the loaded jar, else login.
ChooseSession ==
    /\ pc = "session"
    /\ IF args.no_login
       THEN cookies' = None /\ pc' = "ready"
       ELSE IF loaded.some
       THEN cookies' = loaded /\ pc' = "ready"
       ELSE cookies' = cookies /\ pc' = "credentials"
    /\ UNCHANGED <<args, disk, loaded, username, response, html, futs,
                   samples, result, log, todo, parseVars, genVars, ckVars, fnVars>>

\* Both prompts whatever the options say.
ReadCredentialsAlwaysPrompt ==
    /\ pc = "credentials"
    /\ \E name \in PromptAnswers :
          /\ username' = Some(name)
          /\ log' = log \o <<[op |-> "prompt", what |-> "User name: "],
                             [op |-> "prompt", what |-> "Password: "]>>
    /\ pc' = "login_get"
    /\ UNCHANGED <<args, disk, loaded, cookies, response, html, futs, samples,
                   result, todo, parseVars, genVars, ckVars, fnVars>>

\* Lines 236-253: the username and the password, each from its option or
\* from a prompt.
ReadCredentials ==
    /\ pc = "credentials"
    /\ \E name \in PromptAnswers :
          /\ username' = IF args.user.some THEN args.user ELSE Some(name)
          /\ log' = log
                \o (IF args.user.some THEN <<>>
                    ELSE <<[op |-> "prompt", what |-> "User name: "]>>)
                \o (IF args.password.some THEN <<>>
                    ELSE <<[op |-> "prompt", what |-> "Password: "]>>)
    /\ pc' = "login_get"
    /\ UNCHANGED <<args, disk, loaded, cookies, response, html, futs, samples,
                   result, todo, parseVars, genVars, ckVars, fnVars>>

Sent(method, url, headers) ==
    [op |-> "request", method |-> method, url |-> url, headers |-> headers]
Received(url, status) == [op |-> "response", url |-> url, status |-> status]

\* The login GET with no look at the status.
LoginGetUngated ==
    /\ pc = "login_get"
    /\ \/ /\ Fail([kind |-> "Reqwest"])
          /\ log' = Append(log, Sent("GET", "login", <<>>))
          /\ response' = response
       \/ \E st \in Statuses, hs \in LoginPages :
            LET resp == [status |-> st, set_cookie |-> hs]
            IN  /\ log' = log \o <<Sent("GET", "login", <<>>),
                                   Received("login", resp.status) @@
                                     [set_cookie |-> resp.set_cookie]>>
                /\ IF ~get_csrf_token(resp).ok
                   THEN Fail(get_csrf_token(resp).err) /\ response' = response
                   ELSE /\ response' =
                             Some([csrf_token |-> get_csrf_token(resp).val,
                                   cookies |-> get_cookies(resp)])
                        /\ pc' = "login_post"
                        /\ result' = result
    /\ UNCHANGED <<args, disk, loaded, cookies, username, html, futs, samples,
                   todo, parseVars, genVars, ckVars, fnVars>>

\* login, lines 131-135: the GET of the login page and the token.
LoginGet ==
    /\ pc = "login_get"
    /\ \/ /\ Fail([kind |-> "Reqwest"])
          /\ log' = Append(log, Sent("GET", "login", <<>>))
          /\ response' = response
       \/ \E st \in Statuses, hs \in LoginPages :
            LET resp == [status |-> st, set_cookie |-> hs]
            IN  /\ log' = log \o <<Sent("GET", "login", <<>>),
                                   Received("login", resp.status) @@
                                     [set_cookie |-> resp.set_cookie]>>
                /\ IF resp.status # StatusOK
                   THEN Fail([kind |-> "Http", status |-> resp.status])
                        /\ response' = response
                   ELSE IF ~get_csrf_token(resp).ok
                   THEN Fail(get_csrf_token(resp).err) /\ response' = response
                   ELSE /\ response' =
                             Some([csrf_token |-> get_csrf_token(resp).val,
                                   cookies |-> get_cookies(resp)])
                        /\ pc' = "login_post"
                        /\ result' = result
    /\ UNCHANGED <<args, disk, loaded, cookies, username, html, futs, samples,
                   todo, parseVars, genVars, ckVars, fnVars>>

\* login, lines 136-149: the POST of the form; its answer's cookies are the
\* jar.
LoginPost ==
    /\ pc = "login_post"
    /\ LET post == Sent("POST", "login", response.val.cookies) @@
                   [username |-> username.val,
                    csrf_token |-> response.val.csrf_token]
       IN  \/ /\ Fail([kind |-> "Reqwest"])
              /\ log' = Append(log, post)
              /\ response' = response
           \/ \E st \in Statuses, cs \in PostCookies :
                LET resp == [status |-> st, set_cookie |-> cs]
                IN  /\ log' = log \o <<post, Received("login", resp.status)>>
                    /\ IF resp.status # StatusOK
                       THEN Fail([kind |-> "Http", status |-> resp.status])
                            /\ response' = response
                       ELSE /\ response' = Some([jar |-> get_cookies(resp)])
                            /\ pc' = "verify"
                            /\ result' = result
    /\ UNCHANGED <<args, disk, loaded, cookies, username, html, futs, samples,
                   todo, parseVars, genVars, ckVars, fnVars>>

\* A verification that lets every login pass.
VerifyLoginAlwaysPass ==
    /\ pc = "verify"
    /\ pc' = "save" /\ result' = result
    /\ UNCHANGED <<args, disk, loaded, cookies, username, response, html,
                   futs, samples, log, todo, parseVars, genVars, ckVars, fnVars>>

\* Lines 255-263: login verification.
VerifyLogin ==
    /\ pc = "verify"
    /\ IF ~LoginSucceeded(response.val.jar, username.val)
       THEN Fail([kind |-> "Invalid", msg |-> "Failed to login"])
       ELSE pc' = "save" /\ result' = result
    /\ UNCHANGED <<args, disk, loaded, cookies, username, response, html,
                   futs, samples, log, todo, parseVars, genVars, ckVars, fnVars>>

\* Lines 265-278: the directory of the cookie path is created when it is
\* missing, and the jar is saved.
SaveSession ==
    /\ pc = "save"
    /\ disk' = [disk EXCEPT
                  !.cookie_parent = TRUE,
                  !.cookie_file = Some(save_cookies(response.val.jar,
                                                    disk.cookie_file))]
    /\ log' = log
          \o (IF args.cookie /\ ~disk.cookie_parent
              THEN <<[op |-> "create_dir_all", path |-> CookieParent]>>
              ELSE <<>>)
          \o <<[op |-> "write", path |-> CookiePath]>>
    /\ cookies' = Some(response.val.jar)
    /\ pc' = "ready"
    /\ UNCHANGED <<args, loaded, username, response, html, futs, samples,
                   result, todo, parseVars, genVars, ckVars, fnVars>>

\* Lines 279-291: the GET of the task index.
FetchIndex ==
    /\ pc = "ready"
    /\ LET get == Sent("GET", "tasks", Headers(cookies))
       IN  \/ /\ Fail([kind |-> "Reqwest"])
              /\ log' = Append(log, get)
              /\ html' = html
           \/ \E st \in Statuses, rows \in SeqsUpTo(Rows, MaxRows) :
                LET resp == [status |-> st, text |-> rows]
                IN  /\ log' = log \o <<get, Received("tasks", resp.status)>>
                    /\ IF resp.status # StatusOK
                       THEN Fail([kind |-> "Http", status |-> resp.status])
                            /\ html' = html
                       ELSE html' = resp.text /\ pc' = "get_samples"
                            /\ result' = result
    /\ UNCHANGED <<args, disk, loaded, cookies, username, response, futs,
                   samples, todo, parseVars, genVars, ckVars, fnVars>>

\* get_samples, lines 101-122 up to the first poll of join_all: one future
\* for each task anchor, each sending its request with the jar.  An anchor
\* with no href panics (unwrap, line 108) before any request is sent.
StartFanOut ==
    /\ pc = "get_samples"
    /\ LET anchors == TaskAnchors(html)
       IN  IF \E i \in 1..Len(anchors) : ~anchors[i].href.some
           THEN Fail([kind |-> "panic"]) /\ futs' = futs /\ log' = log
           ELSE /\ futs' = [i \in 1..Len(anchors) |->
                              [task_name |-> anchors[i].text, done |-> FALSE]]
                /\ log' = log \o [i \in 1..Len(anchors) |->
                              Sent("GET", anchors[i].href.val, Headers(cookies))]
                /\ pc' = "join"
                /\ result' = result
    /\ UNCHANGED <<args, disk, loaded, cookies, username, response, html,
                   samples, todo, parseVars, genVars, ckVars, fnVars>>

\* Lines 112-120: the request of a task ends, in any order among the tasks;
\* the body of whatever response came is parsed.
CompleteTask(i) ==
    /\ pc = "join"
    /\ i \in 1..Len(futs)
    /\ ~futs[i].done
    /\ \E o \in TaskOutcomes :
          futs' = [futs EXCEPT ![i] =
                     [task_name |-> futs[i].task_name, done |-> TRUE,
                      outcome |-> o,
                      parsed |-> o.sent,
                      res |-> TaskResult(futs[i].task_name, o)]]
    /\ UNCHANGED <<args, pc, disk, loaded, cookies, username, response, html,
                   samples, result, log, todo, parseVars, genVars, ckVars, fnVars>>

\* Line 122 and line 292: all the futures have ended; their results are
\* collected in task order.
JoinAll ==
    /\ pc = "join"
    /\ \A i \in 1..Len(futs) : futs[i].done
    /\ LET joined == Collect([i \in 1..Len(futs) |-> futs[i].res], EmptyMap)
       IN  IF joined.ok
           THEN samples' = Some(joined.val) /\ pc' = "root" /\ result' = result
           ELSE Fail(joined.err) /\ samples' = samples
    /\ UNCHANGED <<args, disk, loaded, cookies, username, response, html,
                   futs, log, todo, parseVars, genVars, ckVars, fnVars>>

WriteFile(path, content) ==
    /\ disk' = [disk EXCEPT !.files = (path :> content) @@ disk.files]
    /\ log' = Append(log, [op |-> "write", path |-> path])

AlreadyExists == [kind |-> "Invalid", msg |-> ContestId \o " is already exists"]

\* Without the check of line 300.
CreateRootClobber ==
    /\ pc = "root"
    /\ disk' = [disk EXCEPT !.root = TRUE]
    /\ log' = Append(log, [op |-> "create_dir", path |-> RootPath])
    /\ pc' = "manifest" /\ result' = result
    /\ UNCHANGED <<args, loaded, cookies, username, response, html, futs,
                   samples, todo, parseVars, genVars, ckVars, fnVars>>

\* With the check of line 300 after the manifest is written.
CreateRootLate ==
    /\ pc = "root"
    /\ IF disk.root
       THEN /\ Fail(AlreadyExists)
            /\ WriteFile(ManifestPath,
                         generate_cargo_toml(ContestId, args.user,
                                             DefaultDependencies))
       ELSE /\ disk' = [disk EXCEPT !.root = TRUE]
            /\ log' = Append(log, [op |-> "create_dir", path |-> RootPath])
            /\ pc' = "manifest" /\ result' = result
    /\ UNCHANGED <<args, loaded, cookies, username, response, html, futs,
                   samples, todo, parseVars, genVars, ckVars, fnVars>>

\* Lines 294-303: refusal when <root>/<contest-id> exists, else it is
\* created.
CreateRoot ==
    /\ pc = "root"
    /\ IF disk.root
       THEN /\ Fail(AlreadyExists)
            /\ disk' = disk /\ log' = log
       ELSE /\ disk' = [disk EXCEPT !.root = TRUE]
            /\ log' = Append(log, [op |-> "create_dir", path |-> RootPath])
            /\ pc' = "manifest" /\ result' = result
    /\ UNCHANGED <<args, loaded, cookies, username, response, html, futs,
                   samples, todo, parseVars, genVars, ckVars, fnVars>>

\* Lines 304-318: the manifest.
WriteManifest ==
    /\ pc = "manifest"
    /\ WriteFile(ManifestPath,
                 generate_cargo_toml(ContestId, args.user, DefaultDependencies))
    /\ pc' = "dispatcher"
    /\ UNCHANGED <<args, loaded, cookies, username, response, html, futs,
                   samples, result, todo, parseVars, genVars, ckVars, fnVars>>

\* Lines 319-326: src/ and the dispatcher, from the lowercased keys of the
\* map in the order the map gives them.
WriteDispatcher ==
    /\ pc = "dispatcher"
    /\ \E keys \in [1..Cardinality(DOMAIN samples.val) -> DOMAIN samples.val] :
          /\ \A k \in DOMAIN samples.val : \E i \in DOMAIN keys : keys[i] = k
          /\ disk' = [disk EXCEPT !.files =
                        (MainPath :> generate_main_rs(
                            [i \in DOMAIN keys |-> to_lowercase(keys[i])]))
                        @@ disk.files]
    /\ log' = log \o <<[op |-> "create_dir", path |-> SrcPath],
                       [op |-> "write", path |-> MainPath]>>
    /\ todo' = DOMAIN samples.val
    /\ pc' = "tasks"
    /\ UNCHANGED <<args, loaded, cookies, username, response, html, futs,
                   samples, result, parseVars, genVars, ckVars, fnVars>>

\* Lines 340-358: the file of one task; the map gives its keys in any order.
WriteTask(key) ==
    /\ pc = "tasks"
    /\ key \in todo
    /\ WriteFile(TaskPath(to_lowercase(key)),
                 [template |-> DefaultTemplate,
                  module_name |-> to_lowercase(key),
                  samples |-> samples.val[key]])
    /\ todo' = todo \ {key}
    /\ UNCHANGED <<args, pc, loaded, cookies, username, response, html, futs,
                   samples, result, parseVars, genVars, ckVars, fnVars>>

\* Line 360
Finish ==
    /\ pc = "tasks"
    /\ todo = {}
    /\ result' = Some(Ok(<<>>))
    /\ pc' = "done"
    /\ UNCHANGED <<args, disk, loaded, cookies, username, response, html,
                   futs, samples, log, todo, parseVars, genVars, ckVars, fnVars>>

Next ==
    \/ FindCookieFile
    \/ ChooseSession
    \/ ReadCredentials
    \/ LoginGet
    \/ LoginPost
    \/ VerifyLogin
    \/ SaveSession
    \/ FetchIndex
    \/ StartFanOut
    \/ \E i \in 1..MaxRows : CompleteTask(i)
    \/ JoinAll
    \/ CreateRoot
    \/ WriteManifest
    \/ WriteDispatcher
    \/ \E key \in {<<"A">>, <<"a">>, <<"B">>} : WriteTask(key)
    \/ Finish

Spec == InitRun /\ [][Next]_vars

----------------------------------------------------------------------------
(* Sample pairing, stated on the page itself *)

\* The h3 is an example heading of the kind: its first text node starting
\* with the input label decides when there is one, else its first text node
\* starting with the output label; the node needs a second token.
H3IsKind(h3, kind) ==
    LET first(label) ==
            {k \in 1..Len(h3) :
                /\ h3[k].starts = label
                /\ \A j \in 1..(k - 1) : h3[j].starts # label}
    IN  IF kind = "in"
        THEN \E k \in first("in") : Len(h3[k].tokens) >= 2
        ELSE /\ first("in") = {}
             /\ \E k \in first("out") : Len(h3[k].tokens) >= 2

\* The part is a matching example part of the kind: it lies under
\* #task-statement, has a pre, and its first h3 that is an example heading
\* is one of the kind.
PartIsKind(part, kind) ==
    /\ part.in_statement
    /\ part.pres # <<>>
    /\ \E i \in 1..Len(part.h3s) :
          /\ H3IsKind(part.h3s[i], kind)
          /\ \A j \in 1..(i - 1) :
                ~H3IsKind(part.h3s[j], "in") /\ ~H3IsKind(part.h3s[j], "out")

KindPositions(pg, kind) == {i \in 1..Len(pg) : PartIsKind(pg[i], kind)}

\* The n-th smallest element of a set of numbers.
NthOf(S, n) == CHOOSE x \in S : Cardinality({y \in S : y < x}) = n - 1

\* C1: parse_samples returns Ok with exactly min(m, n) samples, m the number
\* of matching input-example parts and n of matching output-example parts;
\* the i-th sample is the text of the i-th input part and of the i-th output
\* part in document order; a page with no matching part gives the empty
\* list, not an error.
C1_SamplePairing ==
    parsed.done =>
        LET ins == KindPositions(page, "in")
            outs == KindPositions(page, "out")
            k == Min(Cardinality(ins), Cardinality(outs))
        IN  /\ parsed.res.ok
            /\ Len(parsed.res.val) = k
            /\ \A i \in 1..k :
                  parsed.res.val[i] = <<Head(page[NthOf(ins, i)].pres),
                                        Head(page[NthOf(outs, i)].pres)>>

\* Two input examples and one output example: one sample, the second input
\* dropped.
C1_Witness ==
    /\ parsed.done
    /\ Cardinality(KindPositions(page, "in")) = 2
    /\ Cardinality(KindPositions(page, "out")) = 1
    /\ Len(parsed.res.val) = 1

----------------------------------------------------------------------------
(* The driver *)

Refused == result = Some(Err(AlreadyExists))
FailedLogin ==
    result = Some(Err([kind |-> "Invalid", msg |-> "Failed to login"]))

IsWrite(e) == e.op \in {"write", "create_dir", "create_dir_all"}
IsProjectWrite(e) == IsWrite(e) /\ Head(e.path) = ContestId
IsRequestTo(e, urls) == e.op = "request" /\ e.url \in urls
NoProjectWrite ==
    /\ disk.files = EmptyMap
    /\ \A i \in DOMAIN log : ~IsProjectWrite(log[i])

\* C2: when <root>/<contest-id> exists as the run reaches project
\* generation, the run ends with Invalid("<contest-id> is already exists")
\* and nothing under <root>/<contest-id> is created or written.
C2_NoClobber ==
    /\ [](Refused => NoProjectWrite)
    /\ [][(pc = "root" /\ disk.root) =>
            (Refused' /\ pc' = "done" /\ disk' = disk /\ log' = log)]_vars

C2_Witness == Refused /\ disk.root /\ samples.some /\ DOMAIN samples.val # {}

\* C3 as claimed: nothing at all, the cookie file included, is written before
\* the refusal.
C3_NothingWrittenBeforeRefusal ==
    Refused => \A i \in DOMAIN log : ~IsWrite(log[i])

\* C3 as amended: nothing under <root>/<contest-id> is written before the
\* refusal; what is written before it is the cookie file, and the missing
\* directory of its path, of a login that passed verification, so a run that
\* found a cookie file or has no-login has written nothing.
C3_RefusalBeforeProjectWrites ==
    Refused =>
        \A i \in DOMAIN log :
            IsWrite(log[i]) =>
                /\ log[i].path \in {CookiePath, CookieParent}
                /\ ~args.no_login /\ ~loaded.some
                /\ LoginSucceeded(cookies.val, username.val)
                /\ \E j \in 2..(i - 1) :
                      /\ log[j] = Received("login", StatusOK)
                      /\ log[j - 1].method = "POST"

C3_Witness ==
    /\ Refused
    /\ \E i \in DOMAIN log : IsWrite(log[i]) /\ log[i].path = CookiePath

\* Some cookie header of the jar holds the name, stated on positions.
JarHoldsName(jar, name) ==
    \E i \in DOMAIN jar : \E k \in 1..(Len(jar[i]) + 1) :
        /\ k + Len(name) - 1 <= Len(jar[i])
        /\ SubSeq(jar[i], k, k + Len(name) - 1) = name

\* C4: after a login POST answered 200, when no cookie of the jar holds the
\* username the run ends with Invalid("Failed to login"), the cookie file is
\* not written and neither the task index nor any task is requested.
C4_LoginVerification ==
    /\ [][(pc = "verify" /\ ~JarHoldsName(response.val.jar, username.val)) =>
            (FailedLogin' /\ pc' = "done" /\ disk' = disk /\ log' = log)]_vars
    /\ [](FailedLogin =>
            /\ ~disk.cookie_file.some
            /\ futs = <<>>
            /\ \A i \in DOMAIN log :
                  ~IsWrite(log[i]) /\ ~IsRequestTo(log[i], {"tasks", "/tasks"}))

\* The POST was answered 200 with a cookie, and no cookie holds the username.
C4_Witness ==
    /\ FailedLogin
    /\ response.val.jar # <<>>
    /\ log[Len(log)] = Received("login", StatusOK)

AllDone == \A i \in DOMAIN futs : futs[i].done
SomeFetchFailed == \E i \in DOMAIN futs : futs[i].done /\ ~futs[i].outcome.sent
SamplesOf(i) == parse_samples(futs[i].outcome.text).val

\* What C5 says of a failing fan-out: a failure, no mapping, no project.
FanOutFails ==
    (pc # "join" /\ AllDone /\ SomeFetchFailed) =>
        /\ ~samples.some
        /\ pc = "done" /\ result = Some(Err([kind |-> "Reqwest"]))
        /\ NoProjectWrite

\* C5 as claimed: when every fetch succeeds the mapping has one entry for
\* each task entry of the index page; when a fetch fails there is a failure,
\* no mapping and no project.
C5_OneEntryPerTaskEntry ==
    /\ samples.some =>
          /\ Cardinality(DOMAIN samples.val) = Len(futs)
          /\ \A i \in DOMAIN futs :
                futs[i].task_name \in DOMAIN samples.val
                /\ samples.val[futs[i].task_name] = SamplesOf(i)
    /\ FanOutFails

\* C5 as amended: when every fetch succeeds the mapping has one entry for
\* each distinct display name of the task entries, holding the samples of the
\* last task entry of that name in index order, whatever the order in which
\* the fetches ended; when a fetch fails there is a failure, no mapping and
\* no project.
C5_OneEntryPerName ==
    /\ samples.some =>
          /\ AllDone /\ ~SomeFetchFailed
          /\ DOMAIN samples.val = {futs[i].task_name : i \in DOMAIN futs}
          /\ \A i \in DOMAIN futs :
                (\A j \in DOMAIN futs :
                    futs[j].task_name = futs[i].task_name => j <= i)
                => samples.val[futs[i].task_name] = SamplesOf(i)
    /\ FanOutFails

\* Two task entries of one display name whose pages give different samples.
C5_Witness ==
    /\ samples.some
    /\ Len(futs) = 2
    /\ futs[1].task_name = futs[2].task_name
    /\ SamplesOf(1) # SamplesOf(2)

Is2xx(status) == status \in 200..299

\* C6: every call surfaces a non-2xx status as Http(status), which ends the
\* run, and no response with such a status reaches the token extraction, the
\* index parsing or the sample extraction.
C6_StatusGate ==
    /\ \A i \in DOMAIN log :
          (log[i].op = "response" /\ ~Is2xx(log[i].status)) =>
              /\ i = Len(log)
              /\ result = Some(Err([kind |-> "Http", status |-> log[i].status]))
    /\ \A i \in DOMAIN futs :
          (futs[i].done /\ futs[i].outcome.sent
              /\ ~Is2xx(futs[i].outcome.status)) =>
              /\ ~futs[i].parsed
              /\ futs[i].res =
                    Err([kind |-> "Http", status |-> futs[i].outcome.status])

\* What the run did to acquire its session: the log before the request of
\* the task index.
RECURSIVE SessionLog(_)
SessionLog(l) ==
    IF l = <<>> \/ IsRequestTo(Head(l), {"tasks"}) THEN <<>>
    ELSE <<Head(l)>> \o SessionLog(Tail(l))

InSession == pc \in {"start", "session"}
InLogin == pc \in {"credentials", "login_get", "login_post", "verify", "save"}

\* C7: the login URL is requested only when no cookie file was found and
\* no-login is absent; with a cookie file the run loads it and is ready with
\* no login, and with no-login and no cookie file it is ready
\* unauthenticated with no login.
C7_LoginOnlyWhenNeeded ==
    /\ (InLogin \/ \E i \in DOMAIN log : IsRequestTo(log[i], {"login"})) =>
          ~loaded.some /\ ~args.no_login
    /\ (loaded.some /\ ~InSession) =>
          ~InLogin /\ SessionLog(log) = <<[op |-> "load_cookies"]>>
    /\ (~loaded.some /\ args.no_login /\ ~InSession) =>
          ~InLogin /\ SessionLog(log) = <<>> /\ cookies = None

\* A cookie file was found, login is not excluded, and the session is ready.
C7_Witness == pc = "ready" /\ loaded.some /\ ~args.no_login

\* C8: the jar loaded from a cookie file that was found is the jar of the
\* session and the cookie headers of the index request and of every task
\* request, whatever the other options.
C8_LoadedJarReused ==
    (loaded.some /\ ~InSession) =>
        /\ cookies = loaded
        /\ \A i \in DOMAIN log :
              IsRequestTo(log[i], {"tasks", "/tasks"}) =>
                  log[i].headers = loaded.val

----------------------------------------------------------------------------
(* The dispatcher *)

\* Lexicographic order of names, stated on positions.
LexLeq(a, b) ==
    \E k \in 0..Min(Len(a), Len(b)) :
        /\ \A i \in 1..k : a[i] = b[i]
        /\ \/ k = Len(a)
           \/ k < Len(a) /\ k < Len(b) /\ CharCode(a[k + 1]) < CharCode(b[k + 1])

\* The names of the lines of the text that begin with the piece.
NamesOf(text, first, last) ==
    LET ls == SelectSeq(text, LAMBDA l : l # <<>> /\ Head(l) = first)
    IN  [i \in 1..Len(ls) |->
            SubSeq(ls[i], 2,
                   CHOOSE k \in 1..Len(ls[i]) :
                       /\ ls[i][k + 1] = last
                       /\ \A j \in 2..k : ls[i][j] \notin {last}) ]

Ascending(names) ==
    \A i \in 1..Len(names) : \A j \in i..Len(names) : LexLeq(names[i], names[j])

Orderings(n) ==
    {f \in [1..n -> 1..n] : \A i \in 1..n : \E j \in 1..n : f[j] = i}

\* C9: the dispatcher text is the same for every ordering of the same task
\* names, and its `mod` declarations and its match arms are in ascending
\* lexicographic order of name, one of each per name given.
C9_DispatcherSorted ==
    main_rs # <<>> =>
        LET n == Len(task_names)
            mods == NamesOf(main_rs, "mod ", ";")
            arms == NamesOf(main_rs, "        \"", "\" => ")
        IN  /\ \A f \in Orderings(n) :
                  generate_main_rs([i \in 1..n |-> task_names[f[i]]]) = main_rs
            /\ Len(mods) = n /\ Len(arms) = n
            /\ \A i \in 1..n : \E j \in 1..n : mods[j] = task_names[i]
            /\ mods = arms
            /\ Ascending(mods)

\* Three different names given in descending order.
C9_Witness ==
    /\ main_rs # <<>>
    /\ Len(task_names) = 3
    /\ \A i \in 1..2 :
          task_names[i] # task_names[i + 1]
          /\ LexLeq(task_names[i + 1], task_names[i])

----------------------------------------------------------------------------
(* The cookie store *)

\* C10: the file saved from the jar of a loaded file loads to the same jar,
\* whether it was saved to a new path or over a file that is there.
C10_RoundTrip == ck_pc = "reloaded" => ck_again = ck_jar

----------------------------------------------------------------------------
(* The generated tests *)

\* The lines of the n-th test of the text.
TestBlock(text, n) == SubSeq(text, 4 + TestLines * (n - 1) + 1, 4 + TestLines * n)

RawStringAt(chars) ==
    LET close == {k \in 4..(Len(chars) - 1) :
                     chars[k] = "\"" /\ chars[k + 1] = "#"}
        first == CHOOSE k \in close : \A j \in close : k <= j
    IN  SubSeq(chars, 4, first - 1)

\* C12: the raw-string literal embedded for a sample's input, and the one
\* for its output, denotes exactly that text.
C12_RawStringDenotesText ==
    tc_text # <<>> =>
        \A n \in 1..Len(tc_samples) :
            /\ RawStringAt(Tail(TestBlock(tc_text, n)[7])) = tc_samples[n][1]
            /\ RawStringAt(Tail(TestBlock(tc_text, n)[15])) = tc_samples[n][2]

----------------------------------------------------------------------------
(* Index alignment of the samples *)

\* The example index of the n-th matching part of a kind, as line 73 reads
\* it from the heading.
IndexOf(pg, kind, n) == PartHeading(pg[NthOf(KindPositions(pg, kind), n)].h3s).val.index

\* C13: in every sample returned by parse_samples the example index of the
\* input block equals the example index of the output block it is paired
\* with.
C13_IndexAligned ==
    (parsed.done /\ parsed.res.ok) =>
        \A n \in 1..Len(parsed.res.val) :
            IndexOf(page, "in", n) = IndexOf(page, "out", n)

----------------------------------------------------------------------------
(* One file and one sub-module per slug *)

Distinct(seq) == \A i, j \in DOMAIN seq : i # j => seq[i] # seq[j]
Range(seq) == {seq[i] : i \in DOMAIN seq}

\* C14: each path under <root>/<contest-id> is created or written at most
\* once in a run, and the dispatcher holds exactly one `mod` declaration and
\* one match arm per distinct slug of the task names, names that differ only
\* in letter case included.
C14_OneWritePerPathOneModPerSlug ==
    /\ \A i, j \in DOMAIN log :
          (i < j /\ IsProjectWrite(log[i]) /\ IsProjectWrite(log[j]))
              => log[i].path # log[j].path
    /\ MainPath \in DOMAIN disk.files =>
          LET mods == NamesOf(disk.files[MainPath], "mod ", ";")
              arms == NamesOf(disk.files[MainPath], "        \"", "\" => ")
              slugs == {to_lowercase(k) : k \in DOMAIN samples.val}
          IN  /\ Distinct(mods) /\ Range(mods) = slugs
              /\ Distinct(arms) /\ Range(arms) = slugs

----------------------------------------------------------------------------
(* The prompts and the manifest's author *)

Prompts(what) ==
    SelectSeq(log, LAMBDA e : e.op = "prompt" /\ e.what = what)
LoginRequired == ~loaded.some /\ ~args.no_login

RunUsername ==
    IF args.user.some THEN args.user
    ELSE IF username.some THEN username
    ELSE None

\* C16: the authors list of the manifest has exactly one element, the
\* username of the run, from -u or from the prompt, and the element is the
\* empty string only when the run has no username.
C16_AuthorIsRunUsername ==
    ManifestPath \in DOMAIN disk.files =>
        LET authors == disk.files[ManifestPath].authors
        IN  /\ Len(authors) = 1
            /\ authors[1] = (IF RunUsername.some THEN RunUsername.val ELSE <<>>)
            /\ authors[1] = <<>> => (~RunUsername.some \/ RunUsername.val = <<>>)

----------------------------------------------------------------------------
(* The CSRF token *)

\* Everything after the first colon of a text that has one.
RestAfterColon(text) ==
    LET first == CHOOSE k \in 1..Len(text) :
                     text[k] = ":" /\ \A j \in 1..(k - 1) : text[j] # ":"
    IN  SubSeq(text, first + 1, Len(text))

\* The fragments that begin with csrf_token, of the headers that begin with
\* REVEL_SESSION, in header order and then fragment order.
CsrfFragments(headers) ==
    LET session == SelectSeq(headers,
                             LAMBDA h : StartsWith(h.text, RevelSession))
    IN  SelectSeq(Flatten([j \in 1..Len(session) |->
                              SplitOn(session[j].text, Separator)]),
                  LAMBDA f : StartsWith(f, CsrfKey))

\* C17: get_csrf_token returns, for the first csrf_token fragment of a
\* session cookie that has a colon once percent-decoded, the whole of the
\* decoded text after the first colon, later colons included; with no such
\* fragment it returns Invalid("Could not find csrf_token").
C17_WholeRestAfterFirstColon ==
    token.some =>
        LET frags == CsrfFragments(hdrs)
            decoded == [i \in 1..Len(frags) |-> PercentDecode(frags[i])]
            cands == SelectSeq(decoded,
                               LAMBDA t : \E k \in 1..Len(t) : t[k] = ":")
        IN  token.val =
              (IF cands = <<>>
               THEN Err([kind |-> "Invalid", msg |-> "Could not find csrf_token"])
               ELSE Ok(RestAfterColon(Head(cands))))

----------------------------------------------------------------------------
(* The login handshake *)

IsLoginPost(e) == e.op = "request" /\ e.url = "login" /\ e.method = "POST"
IsLoginPage(e) == e.op = "response" /\ "set_cookie" \in DOMAIN e
PageOf(e) == [status |-> e.status, set_cookie |-> e.set_cookie]
CookieFileWritten ==
    \E i \in DOMAIN log : log[i].op = "write" /\ log[i].path = CookiePath

Last(seq) == seq[Len(seq)]
PostsIn(l) == SelectSeq(l, IsLoginPost)
Rejected(resp) == resp.status # StatusOK \/ ~get_csrf_token(resp).ok

\* C18: the login POST is sent only right after the login GET was answered
\* 200 with a CSRF token in its headers, and it carries that token and the
\* cookies of that answer; a GET answered with another status ends the run
\* with Http(status) and a GET answered 200 with no token ends it with
\* Invalid("Could not find csrf_token"), with no POST sent and the cookie
\* file not written.
C18_HandshakeOrder ==
    /\ [][PostsIn(log') # PostsIn(log) =>
            /\ Len(log) >= 2
            /\ log[Len(log) - 1] = Sent("GET", "login", <<>>)
            /\ IsLoginPage(Last(log))
            /\ ~Rejected(PageOf(Last(log)))
            /\ PostsIn(log) = <<>> /\ Len(PostsIn(log')) = 1
            /\ IsLoginPost(log'[Len(log) + 1])
            /\ log'[Len(log) + 1].csrf_token
                  = get_csrf_token(PageOf(Last(log))).val
            /\ log'[Len(log) + 1].headers = get_cookies(PageOf(Last(log)))]_vars
    /\ [][(log' # log /\ IsLoginPage(Last(log')) /\ Rejected(PageOf(Last(log'))))
            =>  /\ pc' = "done"
                /\ result' = Some(Err(
                      IF Last(log').status # StatusOK
                      THEN [kind |-> "Http", status |-> Last(log').status]
                      ELSE [kind |-> "Invalid",
                            msg |-> "Could not find csrf_token"]))
                /\ disk' = disk]_vars
    /\ []((pc = "done" /\ log # <<>> /\ IsLoginPage(Last(log))) =>
            /\ PostsIn(log) = <<>>
            /\ ~CookieFileWritten /\ ~disk.cookie_file.some)
    /\ []((pc # "done" /\ log # <<>> /\ IsLoginPage(Last(log))) =>
            pc = "login_post")

\* A POST was sent with the cookies of the login page.
C18_Witness ==
    \E i \in DOMAIN log : IsLoginPost(log[i]) /\ Len(log[i].headers) = 2

----------------------------------------------------------------------------
(* The cookie file *)

IsCookieWrite(e) == e.op = "write" /\ e.path = CookiePath
CookieWrites(l) == SelectSeq(l, IsCookieWrite)
IndexRequested == \E i \in DOMAIN log : IsRequestTo(log[i], {"tasks"})

\* C19: the cookie file is written, once, only as the last step of a login
\* whose POST was answered 200 and whose jar passed verification, and before
\* the task index is requested; a run with a loaded jar, a run with no-login
\* and a run whose login fails leave the cookie file as it was.
C19_CookieFileOnlyAfterVerifiedLogin ==
    /\ [][(disk'.cookie_file # disk.cookie_file
             \/ CookieWrites(log') # CookieWrites(log)) =>
            /\ pc = "save" /\ pc' = "ready"
            /\ LoginRequired
            /\ Last(log) = Received("login", StatusOK)
            /\ JarHoldsName(response.val.jar, username.val)
            /\ CookieWrites(log) = <<>> /\ ~IndexRequested
            /\ IsCookieWrite(Last(log'))
            /\ disk'.cookie_file.some]_vars
    /\ [](IndexRequested =>
            (CookieWrites(log) # <<>> <=> (LoginRequired /\ ~InSession)))
    /\ []((~LoginRequired /\ ~InSession) => CookieWrites(log) = <<>>)
    /\ []((pc = "done" /\ result.some /\ ~result.val.ok /\ ~IndexRequested)
            => CookieWrites(log) = <<>>)

\* A run that logged in, saved the cookie file and went on to the index.
C19_Witness == CookieWrites(log) # <<>> /\ IndexRequested /\ disk.cookie_file.some

----------------------------------------------------------------------------
(* The task index *)

\* The first anchor of the first cell of each row whose first cell has one,
\* in document order.
RECURSIVE FirstCellAnchors(_)
FirstCellAnchors(rows) ==
    IF rows = <<>> THEN <<>>
    ELSE IF Head(rows) # <<>> /\ Head(rows)[1] # <<>>
    THEN <<Head(rows)[1][1]>> \o FirstCellAnchors(Tail(rows))
    ELSE FirstCellAnchors(Tail(rows))

\* C20: the task entries of an index page are, row by row, the first anchor
\* of the row's first cell, its inner text the display name and its href the
\* address requested; a row whose first cell has no anchor gives no entry,
\* even when a later cell of the row has an anchor.
C20_FirstCellAnchor ==
    pc = "join" =>
        LET entries == FirstCellAnchors(html)
            requests == SelectSeq(log, LAMBDA e : IsRequestTo(e, {"/tasks"}))
        IN  /\ Len(futs) = Len(entries)
            /\ \A i \in 1..Len(futs) : futs[i].task_name = entries[i].text
            /\ Len(requests) = Len(entries)

====
